---- MODULE Spec2Model ----
(***************************************************************************)
(* Model of the job lifecycle of pyclash (src/python/pyclash/clash.py):    *)
(* one Job object, the caller's thread driving its public operations, and  *)
(* the two external services it talks to (provisioning API, message bus).  *)
(*                                                                         *)
(* Every provider call is a step of its own because every provider call    *)
(* may raise; the long-running operations of the provisioning API advance  *)
(* by an action of the provider and are observed by _wait_for_operation.   *)
(***************************************************************************)
EXTENDS Integers, Sequences, FiniteSets, TLC

\* ------------------------------------------------------------------ bounds

\* How many public operations the caller invokes on the Job.
MaxCalls == 2

\* The clock is followed up to this many seconds.
MaxTime == 30

\* The clock advances in steps of this many seconds.
TickSeconds == 10

\* How many times the bus hands one status message to a streaming listener.
MaxDeliveries == 2

\* How many runtime specs a JobGroup is given.
MaxSpecs == 2

\* How many times in all the bus hands a message of a JobGroup's jobs to a
\* listener that has already been given it.
MaxDuplicates == 1

\* ------------------------------------------------------- program constants

\* Job.POLLING_INTERVAL_SECONDS
POLLING_INTERVAL_SECONDS == 30

\* Python's None for the fields and arguments that may hold it.
None == "None"

\* None for an Optional[int]: kept apart from every number, 0 included.
NoTimeout == -1

\* The paths publisher.topic_path / subscriber.subscription_path return.
TopicPath == "projects/p/topics/job"

SubscriptionPath == "projects/p/subscriptions/job"

VARIABLES
    \* --- the Job object
    started,                   \* self.started
    job_status_topic,          \* self.job_status_topic
    job_status_subscription,   \* self.job_status_subscription
    timeout_seconds,           \* self.timeout_seconds (constructor argument)
    \* --- the caller's thread
    pc,                        \* position inside the current public operation
    curOp,                     \* the public operation invoked last
    callNo,                    \* public operations invoked so far
    runCalled,                 \* run has been invoked on this Job
    wait_for_result,           \* run's argument
    attach_timeout,            \* attach's timeout_seconds argument
    start_time,                \* attach's local start_time
    pull_start,                \* when the pull in progress was issued
    pulled,                    \* the message _pull_message received
    ex,                        \* the exception bound by run's except clause
    rb,                        \* position inside run's except clause
    outcome,                   \* how the last public operation ended
    \* --- provisioning API
    templateExists,
    groupExists,
    op,                        \* the long-running operation being waited for
    \* --- message bus
    topicExists,
    subExists,
    listening,                 \* a streaming listener is subscribed
    msg,                       \* the worker's status message
    \* --- a JobGroup
    job_specs,                 \* the runtime specs added, in order
    running_jobs,              \* the Jobs recorded as launched
    jobs_status_codes,         \* the status codes the callbacks appended
    gpc,                       \* position of the group's caller
    spec_id,                   \* loop index of JobGroup.run / clean_up
    jobs,                      \* the Jobs the factory has created, by index
    gout,                      \* how the group's last operation ended
    cleaned,                   \* the Job.clean_up calls of the last clean_up
    \* --- the listener thread of on_finish
    callbacks,                 \* what pubsub_callback has done, in order:
                               \* calls of the callback and acknowledgements
    \* --- time
    now,                       \* time.time(), in seconds
    \* --- history
    log,                       \* provider calls that create, delete or list
    logAtCall,                 \* Len(log) when the current operation began
    polled,                    \* the current operation polled the provider
    listed,                    \* the topics the last list_topics returned
    waitExit,                  \* how the last poll of _wait_for_operation ended
    opsDone,                   \* operations _wait_for_operation saw succeed
    created,                   \* resources run created successfully
    firstError                 \* the exception that ended run's try block

jobVars == <<started, job_status_topic, job_status_subscription, timeout_seconds>>

enterVars == <<curOp, callNo, logAtCall>>

endVars == <<pc, outcome, ex, rb>>

argVars == <<runCalled, wait_for_result, attach_timeout>>

attachVars == <<start_time, pull_start, pulled>>

computeVars == <<templateExists, groupExists, op>>

busVars == <<topicExists, subExists, listening, msg>>

listenerVars == <<callbacks>>

groupVars == <<job_specs, running_jobs, jobs_status_codes, gpc, spec_id, jobs,
               gout, cleaned>>

histVars == <<opsDone, created, firstError>>

\* The state of the single Job, which the operations of a JobGroup leave
\* alone (a JobGroup makes its own Jobs).
singleJobVars == <<jobVars, enterVars, endVars, argVars, attachVars,
                   computeVars, busVars, listenerVars, now, log, polled,
                   listed, waitExit, histVars>>

vars == <<singleJobVars, groupVars>>

\* ------------------------------------------------------------------ helpers

Min(a, b) == IF a <= b THEN a ELSE b

NoOp == [kind |-> "none", status |-> "DONE", error |-> FALSE]

NoMsg == [state |-> "none", data |-> "", time |-> 0]

\* No operation of the JobGroup has ended yet.
NoGroupOutcome == [op |-> "none", kind |-> "none", value |-> None]

\* No poll of an operation has been made yet.
NotWaited == [exit |-> "none", status |-> "none", error |-> None]

NoOutcome == [op |-> "none", kind |-> "none", value |-> "none", status |-> -1]

\* A provider call as it is remembered: what was called, by which part of
\* the Job, and whether the call returned (ok) or raised.
Call(c, by, ok) == [call |-> c, by |-> by, ok |-> ok]

Logged(c, by, ok) == log' = Append(log, Call(c, by, ok))

\* The values the timeout arguments are drawn from.
Timeouts == {NoTimeout, 0, 10}

\* The status codes a worker reports.
StatusCodes == {0, 1}

\* The status message the worker publishes, and json.loads of it.
StatusData(code) == IF code = 0 THEN "{\"status\": 0}" ELSE "{\"status\": 1}"

json_loads(data) ==
    CASE data = "{\"status\": 0}" -> [status |-> 0]
      [] data = "{\"status\": 1}" -> [status |-> 1]
      [] OTHER -> [status |-> -1]

\* The exceptions of the Job itself.
NotRunning == "ValueError(The job is not running)"

TopicNotFound == "ValueError(Could not find status topic)"

JobTimeout == "TimeoutError(The job took longer)"

\* ----------------------------------------------------------------- initial

Init ==
    /\ started = FALSE
    /\ job_status_topic = None
    /\ job_status_subscription = None
    /\ timeout_seconds \in Timeouts
    /\ pc = "idle"
    /\ curOp = "none"
    /\ callNo = 0
    /\ runCalled = FALSE
    /\ wait_for_result = FALSE
    /\ attach_timeout = NoTimeout
    /\ start_time = 0
    /\ pull_start = 0
    /\ pulled = NoMsg
    /\ ex = None
    /\ rb = 0
    /\ outcome = NoOutcome
    /\ templateExists = FALSE
    /\ groupExists = FALSE
    /\ op = NoOp
    /\ topicExists = FALSE
    /\ subExists = FALSE
    /\ listening = FALSE
    /\ msg = NoMsg
    /\ waitExit = NotWaited
    /\ listed = {}
    /\ job_specs = <<>>
    /\ running_jobs = <<>>
    /\ jobs_status_codes = <<>>
    /\ gpc = "idle"
    /\ spec_id = 0
    /\ jobs = <<>>
    /\ gout = NoGroupOutcome
    /\ cleaned = <<>>
    /\ callbacks = <<>>
    /\ now = 0
    /\ log = <<>>
    /\ logAtCall = 0
    /\ polled = FALSE
    /\ opsDone = {}
    /\ created = {}
    /\ firstError = None

\* ------------------------------------------------- entering and leaving

\* The caller invokes the public operation `name` on the idle Job. (What the
\* previous operation left in the history of its polls is dropped here.)
Enter(name) ==
    /\ pc = "idle"
    /\ callNo < MaxCalls
    /\ callNo' = callNo + 1
    /\ curOp' = name
    /\ logAtCall' = Len(log)
    /\ polled' = FALSE
    /\ waitExit' = NotWaited

\* The operation `name` ends: kind is "return" or "raise", v the exception
\* (or None), s the status of the payload returned (-1 when there is none).
Done(name, kind, v, s) ==
    /\ pc' = "idle"
    /\ outcome' = [op |-> name, kind |-> kind, value |-> v, status |-> s]
    /\ ex' = None
    /\ rb' = 0

\* The locals of an earlier attach are gone when the next operation begins.
NoAttachLocals ==
    /\ attach_timeout' = NoTimeout
    /\ start_time' = 0
    /\ pull_start' = 0
    /\ pulled' = NoMsg

Return(name) == Done(name, "return", None, -1)

Raise(name, e) == Done(name, "raise", e, -1)

Goto(p) ==
    /\ pc' = p
    /\ UNCHANGED <<outcome, ex, rb>>

\* ------------------------------------------------------ provisioning API

\* A long-running operation the provisioning API has just accepted.
NewOp(kind) == [kind |-> kind, status |-> "PENDING", error |-> FALSE]

\* What an operation does to the provider's resources when it succeeds.
TemplateAfter(kind) ==
    CASE kind = "insert_template" -> TRUE
      [] kind = "delete_template" -> FALSE
      [] OTHER -> templateExists

GroupAfter(kind) ==
    CASE kind = "insert_group" -> TRUE
      [] kind = "delete_group" -> FALSE
      [] OTHER -> groupExists

\* The provider starts working on the accepted operation.
ProviderStartOp ==
    /\ op.status = "PENDING"
    /\ op' = [op EXCEPT !.status = "RUNNING"]
    /\ UNCHANGED <<groupVars, listed, listenerVars, waitExit, jobVars, enterVars, endVars, argVars, attachVars,
                   templateExists, groupExists, busVars, now, log, polled,
                   histVars>>

\* The provider finishes the operation, with or without an error; only a
\* successful operation changes the resource.
ProviderFinishOp ==
    /\ op.status = "RUNNING"
    /\ \E err \in BOOLEAN :
        /\ op' = [op EXCEPT !.status = "DONE", !.error = err]
        /\ templateExists' = IF err THEN templateExists ELSE TemplateAfter(op.kind)
        /\ groupExists' = IF err THEN groupExists ELSE GroupAfter(op.kind)
    /\ UNCHANGED <<groupVars, listed, listenerVars, waitExit, jobVars, enterVars, endVars, argVars, attachVars, busVars,
                   now, log, polled, histVars>>

\* Job._wait_for_operation, one iteration of its loop on the result of
\* operations.get: "raise" on DONE with an error, "return" on DONE without,
\* "sleep" (and poll again) otherwise.
WaitForOperationNoWait(result) ==
    IF result.status = "DONE" /\ result.error THEN "raise" ELSE "return"

WaitForOperationIgnoresError(result) ==
    IF result.status = "DONE" THEN "return" ELSE "sleep"

_wait_for_operation(result) ==
    IF result.status = "DONE"
    THEN IF result.error THEN "raise" ELSE "return"
    ELSE "sleep"

\* Line 406: operations.get(...).execute() answers with the operation as
\* the provider has it, or raises; then the loop body of lines 408-413.
\* The record tells how the iteration ended and on which answer.
PollOperation(answered) ==
    IF ~answered
    THEN [exit |-> "raise", status |-> "none", error |-> "OperationGetError"]
    ELSE [exit |-> _wait_for_operation(op), status |-> op.status,
          error |-> IF op.error THEN "OperationError" ELSE None]

\* ------------------------------------------------------------ Job.run

\* The exception e leaves run's try block: the except clause binds it.
Throw(e) ==
    /\ pc' = "rollback"
    /\ ex' = e
    /\ rb' = 1
    /\ firstError' = e
    /\ UNCHANGED outcome

\* run(args, ..., wait_for_result): the caller may call it once.
CallRun ==
    /\ ~runCalled
    /\ Enter("run")
    /\ \E w \in BOOLEAN : wait_for_result' = w
    /\ runCalled' = TRUE
    /\ NoAttachLocals
    /\ Goto("run_config")
    /\ UNCHANGED <<groupVars, listed, listenerVars, jobVars, computeVars, busVars, now, log, histVars>>

\* Lines 465-477: the machine configuration is built (MachineConfig.to_dict
\* asks the provisioning API for the disk image) before the try block, then
\* the two status fields are reset.
RunCreateMachineConfig ==
    /\ pc = "run_config"
    /\ \E ok \in BOOLEAN :
        /\ Logged("get_image", "run", ok)
        /\ IF ok
           THEN /\ job_status_topic' = None
                /\ job_status_subscription' = None
                /\ Goto("run_create_topic")
           ELSE /\ Raise("run", "GetImageError")
                /\ UNCHANGED <<job_status_topic, job_status_subscription>>
    /\ UNCHANGED <<groupVars, listed, listenerVars, waitExit, started, timeout_seconds, enterVars, argVars, attachVars,
                   computeVars, busVars, now, polled, histVars>>

\* Line 479 and _create_status_topic.
RunCreateStatusTopic ==
    /\ pc = "run_create_topic"
    /\ \E ok \in BOOLEAN :
        /\ Logged("create_topic", "run", ok)
        /\ IF ok
           THEN /\ topicExists' = TRUE
                /\ job_status_topic' = TopicPath
                /\ created' = created \cup {"topic"}
                /\ Goto("run_list_topics")
                /\ UNCHANGED firstError
           ELSE /\ Throw("CreateTopicError")
                /\ UNCHANGED <<topicExists, job_status_topic, created>>
    /\ UNCHANGED <<groupVars, listed, listenerVars, waitExit, started, job_status_subscription, timeout_seconds, enterVars,
                   argVars, attachVars, computeVars, subExists, listening, msg,
                   now, polled, opsDone>>

\* _create_status_subscription, line 680: is the topic among those listed?
TopicFoundAlways(topic, topics) == TRUE

TopicFound(topic, topics) == topic \in topics

\* _create_status_subscription, lines 677-681: the project's topics are
\* listed; the bus may not list a topic it has just created.
RunListTopics ==
    /\ pc = "run_list_topics"
    /\ \E ok \in BOOLEAN, topics \in SUBSET {TopicPath} :
        /\ topicExists \/ topics = {}
        /\ Logged("list_topics", "run", ok)
        /\ listed' = IF ok THEN topics ELSE listed
        /\ IF ~ok
           THEN Throw("ListTopicsError")
           ELSE IF ~TopicFound(job_status_topic, topics)
                THEN Throw(TopicNotFound)
                ELSE Goto("run_create_subscription") /\ UNCHANGED firstError
    /\ UNCHANGED <<groupVars, listenerVars, waitExit, jobVars, enterVars, argVars, attachVars, computeVars,
                   busVars, now, polled, opsDone, created>>

\* _create_status_subscription, lines 683-686, and the assignment of line 480.
RunCreateStatusSubscription ==
    /\ pc = "run_create_subscription"
    /\ \E ok \in BOOLEAN :
        /\ Logged("create_subscription", "run", ok)
        /\ IF ok
           THEN /\ subExists' = TRUE
                /\ job_status_subscription' = SubscriptionPath
                /\ created' = created \cup {"subscription"}
                /\ Goto("run_insert_template")
                /\ UNCHANGED firstError
           ELSE /\ Throw("CreateSubscriptionError")
                /\ UNCHANGED <<subExists, job_status_subscription, created>>
    /\ UNCHANGED <<groupVars, listed, listenerVars, waitExit, started, job_status_topic, timeout_seconds, enterVars,
                   argVars, attachVars, computeVars, topicExists, listening,
                   msg, now, polled, opsDone>>

\* _create_instance_template, lines 417-425: instanceTemplates().insert.
RunInsertTemplate ==
    /\ pc = "run_insert_template"
    /\ \E ok \in BOOLEAN :
        /\ Logged("insert_template", "run", ok)
        /\ IF ok
           THEN /\ op' = NewOp("insert_template")
                /\ Goto("run_wait_template")
                /\ UNCHANGED firstError
           ELSE /\ Throw("InsertTemplateError")
                /\ UNCHANGED op
    /\ UNCHANGED <<groupVars, listed, listenerVars, waitExit, jobVars, enterVars, argVars, attachVars, templateExists,
                   groupExists, busVars, now, polled, opsDone, created>>

\* _wait_for_operation as run's try block calls it (lines 426 and 445):
\* `resource` is what the operation creates, `next` where run goes on.
RunWaitForOperation(at, resource, next) ==
    /\ pc = at
    /\ polled' = TRUE
    /\ \E ok \in BOOLEAN :
        /\ waitExit' = PollOperation(ok)
        /\ CASE PollOperation(ok).exit = "raise" ->
                    /\ Throw(PollOperation(ok).error)
                    /\ UNCHANGED <<opsDone, created>>
               [] PollOperation(ok).exit = "return" ->
                    /\ opsDone' = opsDone \cup {op.kind}
                    /\ created' = created \cup {resource}
                    /\ Goto(next)
                    /\ UNCHANGED firstError
               [] OTHER ->
                    /\ Goto(at)
                    /\ UNCHANGED <<opsDone, created, firstError>>
    /\ UNCHANGED <<groupVars, listed, listenerVars, jobVars, enterVars, argVars, attachVars, computeVars,
                   busVars, now, log>>

RunWaitTemplate ==
    RunWaitForOperation("run_wait_template", "template", "run_insert_group")

\* _create_managed_instance_group, lines 430-444: instanceGroupManagers().insert.
RunInsertGroup ==
    /\ pc = "run_insert_group"
    /\ \E ok \in BOOLEAN :
        /\ Logged("insert_group", "run", ok)
        /\ IF ok
           THEN /\ op' = NewOp("insert_group")
                /\ Goto("run_wait_group")
                /\ UNCHANGED firstError
           ELSE /\ Throw("InsertGroupError")
                /\ UNCHANGED op
    /\ UNCHANGED <<groupVars, listed, listenerVars, waitExit, jobVars, enterVars, argVars, attachVars, templateExists,
                   groupExists, busVars, now, polled, opsDone, created>>

RunWaitGroup ==
    RunWaitForOperation("run_wait_group", "group", "run_started")

\* Lines 485-487: the Job is started; with wait_for_result, attach is
\* entered (its not-started check passes, start_time is taken).
RunMarkStarted ==
    /\ pc = "run_started"
    /\ started' = TRUE
    /\ IF wait_for_result
       THEN /\ attach_timeout' = timeout_seconds
            /\ start_time' = now
            /\ Goto("attach_loop")
       ELSE /\ Return("run")
            /\ UNCHANGED <<attach_timeout, start_time>>
    /\ UNCHANGED <<groupVars, listed, listenerVars, waitExit, job_status_topic, job_status_subscription, timeout_seconds,
                   enterVars, runCalled, wait_for_result, pull_start, pulled,
                   computeVars, busVars, now, log, polled, histVars>>

\* ------------------------------------------- Job.run, the except clause

\* Lines 488-511: what the except clause tries to remove, in this order.
RollbackOrderTopicLast == <<"group", "subscription", "topic">>

RollbackOrder == <<"group", "topic", "subscription">>

\* Lines 489, 497 and 503: the condition under which each removal is tried.
RollbackApplies(resource) ==
    CASE resource = "group" -> started
      [] resource = "topic" -> job_status_topic # None
      [] resource = "subscription" -> job_status_subscription # None

\* Lines 492, 500 and 506: `except Exception as e: logger.warning(...)`.
\* The removal's exception e is logged; the clause goes on and run will
\* raise what it had caught (orig).
RollbackHandlerEscalates(orig, e) == [proceed |-> FALSE, raise |-> e]

RollbackHandler(orig, e) == [proceed |-> TRUE, raise |-> orig]

\* The removal in progress raised e.
RollbackFailed(e) ==
    IF RollbackHandler(ex, e).proceed
    THEN /\ pc' = "rollback"
         /\ rb' = rb + 1
         /\ ex' = RollbackHandler(ex, e).raise
         /\ UNCHANGED outcome
    ELSE Raise("run", RollbackHandler(ex, e).raise)

\* The removal in progress is over (or was not applicable).
RollbackNext ==
    /\ pc' = "rollback"
    /\ rb' = rb + 1
    /\ UNCHANGED <<ex, outcome>>

RollbackAt(resource) ==
    /\ pc = "rollback"
    /\ rb \in 1..Len(RollbackOrder)
    /\ RollbackOrder[rb] = resource

\* Lines 489-495 and _remove_instance_group, lines 610-619.
RollbackRemoveInstanceGroup ==
    /\ RollbackAt("group")
    /\ IF RollbackApplies("group")
       THEN \E ok \in BOOLEAN :
            /\ Logged("delete_group", "rollback", ok)
            /\ IF ok
               THEN /\ op' = NewOp("delete_group")
                    /\ pc' = "rollback_wait_group"
                    /\ UNCHANGED <<rb, ex, outcome>>
               ELSE /\ RollbackFailed("DeleteGroupError")
                    /\ UNCHANGED op
       ELSE RollbackNext /\ UNCHANGED <<log, op>>
    /\ UNCHANGED <<groupVars, listed, listenerVars, waitExit, jobVars, enterVars, argVars, attachVars, templateExists,
                   groupExists, busVars, now, polled, histVars>>

\* _remove_instance_group, line 620: the wait for the group's deletion.
RollbackWaitGroup ==
    /\ pc = "rollback_wait_group"
    /\ polled' = TRUE
    /\ \E ok \in BOOLEAN :
        /\ waitExit' = PollOperation(ok)
        /\ CASE PollOperation(ok).exit = "raise" ->
                    RollbackFailed(PollOperation(ok).error) /\ UNCHANGED opsDone
               [] PollOperation(ok).exit = "return" ->
                    /\ opsDone' = opsDone \cup {op.kind}
                    /\ RollbackNext
               [] OTHER ->
                    /\ UNCHANGED <<endVars, opsDone>>
    /\ UNCHANGED <<groupVars, listed, listenerVars, jobVars, enterVars, argVars, attachVars, computeVars,
                   busVars, now, log, created, firstError>>

\* Lines 497-501.
RollbackDeleteTopic ==
    /\ RollbackAt("topic")
    /\ IF RollbackApplies("topic")
       THEN \E ok \in BOOLEAN :
            /\ Logged("delete_topic", "rollback", ok)
            /\ IF ok
               THEN RollbackNext /\ topicExists' = FALSE
               ELSE RollbackFailed("DeleteTopicError") /\ UNCHANGED topicExists
       ELSE RollbackNext /\ UNCHANGED <<log, topicExists>>
    /\ UNCHANGED <<groupVars, listed, listenerVars, waitExit, jobVars, enterVars, argVars, attachVars, computeVars,
                   subExists, listening, msg, now, polled, histVars>>

\* Lines 503-509.
RollbackDeleteSubscription ==
    /\ RollbackAt("subscription")
    /\ IF RollbackApplies("subscription")
       THEN \E ok \in BOOLEAN :
            /\ Logged("delete_subscription", "rollback", ok)
            /\ IF ok
               THEN RollbackNext /\ subExists' = FALSE
               ELSE RollbackFailed("DeleteSubscriptionError") /\ UNCHANGED subExists
       ELSE RollbackNext /\ UNCHANGED <<log, subExists>>
    /\ UNCHANGED <<groupVars, listed, listenerVars, waitExit, jobVars, enterVars, argVars, attachVars, computeVars,
                   topicExists, listening, msg, now, polled, histVars>>

\* Line 511: `raise ex`.
RollbackRaise ==
    /\ pc = "rollback"
    /\ rb = Len(RollbackOrder) + 1
    /\ Raise("run", ex)
    /\ UNCHANGED <<groupVars, listed, listenerVars, waitExit, jobVars, enterVars, argVars, attachVars, computeVars,
                   busVars, now, log, polled, histVars>>

\* --------------------------------------------------------- Job.attach

\* `not timeout_seconds`: true of None and of 0.
Falsy(t) == t = NoTimeout \/ t = 0

\* Line 632: the loop condition of attach.
AttachMayPull(t, elapsed) == Falsy(t) \/ elapsed <= t

\* An exception leaves attach: into run's except clause when run called
\* attach, to the caller otherwise.
AttachFailToCaller(e) == Raise(curOp, e) /\ UNCHANGED firstError

AttachFail(e) ==
    IF curOp = "run"
    THEN Throw(e)
    ELSE Raise("attach", e) /\ UNCHANGED firstError

\* Lines 627-628: attach refuses a Job that is not started.
AttachRejectsNever(isStarted) == FALSE

AttachRejects(isStarted) == ~isStarted

\* attach(timeout_seconds), lines 627-631.
CallAttach ==
    /\ Enter("attach")
    /\ \E t \in Timeouts : attach_timeout' = t
    /\ IF AttachRejects(started)
       THEN Raise("attach", NotRunning) /\ start_time' = 0
       ELSE Goto("attach_loop") /\ start_time' = now
    /\ pull_start' = 0
    /\ pulled' = NoMsg
    /\ UNCHANGED <<groupVars, listed, listenerVars, jobVars, runCalled, wait_for_result, computeVars, busVars,
                   now, log, histVars>>

\* Line 632 and the pull of lines 641-646: the deadline is looked at, then
\* a pull that may block for POLLING_INTERVAL_SECONDS is issued.
AttachLoop ==
    /\ pc = "attach_loop"
    /\ IF AttachMayPull(attach_timeout, now - start_time)
       THEN /\ pull_start' = now
            /\ polled' = TRUE
            /\ Goto("attach_pull")
            /\ UNCHANGED firstError
       ELSE /\ AttachFail(JobTimeout)
            /\ UNCHANGED <<pull_start, polled>>
    /\ UNCHANGED <<groupVars, listed, listenerVars, waitExit, jobVars, enterVars, argVars, start_time, pulled, computeVars,
                   busVars, now, log, opsDone, created>>

\* The pull blocks: no message is there and its timeout has not run out.
PullBlocks ==
    /\ pc = "attach_pull"
    /\ msg.state # "pending"
    /\ now - pull_start < POLLING_INTERVAL_SECONDS
    /\ now < MaxTime
    /\ now' = Min(now + TickSeconds, pull_start + POLLING_INTERVAL_SECONDS)
    /\ UNCHANGED <<groupVars, listed, listenerVars, waitExit, jobVars, enterVars, endVars, argVars, attachVars,
                   computeVars, busVars, log, polled, histVars>>

\* Lines 641-654: the pull returns a message, returns nothing after its
\* timeout, or raises (it can only raise once the subscription is gone).
PullReturns ==
    /\ pc = "attach_pull"
    /\ \E ok \in BOOLEAN :
        /\ ~subExists => ~ok
        /\ IF ~ok
           THEN AttachFail("PullError") /\ UNCHANGED pulled
           ELSE IF msg.state = "pending"
                THEN /\ pulled' = [state |-> "received", data |-> msg.data,
                                   time |-> now]
                     /\ Goto("attach_acknowledge")
                     /\ UNCHANGED firstError
                ELSE /\ now - pull_start >= POLLING_INTERVAL_SECONDS
                     /\ Goto("attach_loop")
                     /\ UNCHANGED <<pulled, firstError>>
    /\ UNCHANGED <<groupVars, listed, listenerVars, waitExit, jobVars, enterVars, argVars, start_time, pull_start,
                   computeVars, busVars, now, log, polled, opsDone, created>>

\* Lines 650-651: the received messages whose ack ids are handed to
\* subscriber.acknowledge.
AckIdsNone(received) == {}

AckIds(received) == {received}

\* Lines 650-652 and 634-635: the message is acknowledged and its decoded
\* payload returned.
AttachAcknowledge ==
    /\ pc = "attach_acknowledge"
    /\ \E ok \in BOOLEAN :
        /\ Logged("acknowledge", "attach", ok)
        /\ IF ok
           THEN /\ msg' = IF pulled \in AckIds(pulled)
                          THEN [msg EXCEPT !.state = "acked"]
                          ELSE [msg EXCEPT !.state = "pending"]
                /\ Done(curOp, "return", None, json_loads(pulled.data).status)
                /\ UNCHANGED firstError
           ELSE /\ AttachFail("AcknowledgeError")
                /\ UNCHANGED msg
    /\ UNCHANGED <<groupVars, listed, listenerVars, waitExit, jobVars, enterVars, argVars, attachVars, computeVars,
                   topicExists, subExists, listening, now, polled, opsDone,
                   created>>

\* ------------------------------------------------------- Job.on_finish

\* Lines 551-561: the whole of on_finish.
CallOnFinish ==
    /\ Enter("on_finish")
    /\ IF ~started
       THEN Raise("on_finish", NotRunning) /\ UNCHANGED <<log, listening>>
       ELSE \E ok \in BOOLEAN :
            /\ Logged("subscribe", "on_finish", ok)
            /\ IF ok
               THEN Return("on_finish") /\ listening' = TRUE
               ELSE Raise("on_finish", "SubscribeError") /\ UNCHANGED listening
    /\ NoAttachLocals
    /\ UNCHANGED <<groupVars, listed, listenerVars, jobVars, runCalled, wait_for_result, computeVars,
                   topicExists, subExists, msg, now, histVars>>

\* -------------------------------------------------------- Job.clean_up

\* The name the Job gives its template and its group.
JobName == "job"

\* Line 590: clean_up does something only on a started Job.
CleanUpAlways(isStarted) == TRUE

CleanUpGuard(isStarted) == isStarted

\* Line 577 of _wait_for_instance_group_removal.
GroupRemovedAlways(name, active_instance_groups) == TRUE

GroupRemoved(name, active_instance_groups) ==
    name \notin active_instance_groups

\* clean_up(), line 590; __exit__ (lines 694-695) is a call of clean_up.
CallCleanUp ==
    \E name \in {"clean_up", "__exit__"} :
        /\ Enter(name)
        /\ IF CleanUpGuard(started)
           THEN Goto("cleanup_poll")
           ELSE Return(name)
        /\ NoAttachLocals
        /\ UNCHANGED <<groupVars, listed, listenerVars, jobVars, runCalled, wait_for_result, computeVars,
                       busVars, now, log, histVars>>

\* _wait_for_instance_group_removal, one iteration, with
\* _retrieve_active_instance_groups (the zone may hold other groups).
CleanUpPollGroups ==
    /\ pc = "cleanup_poll"
    /\ polled' = TRUE
    /\ \E ok \in BOOLEAN, others \in SUBSET {"other"} :
        LET active_instance_groups ==
                others \cup (IF groupExists THEN {JobName} ELSE {})
        IN IF ~ok
           THEN Raise(curOp, "ListGroupsError")
           ELSE IF GroupRemoved(JobName, active_instance_groups)
                THEN Goto("cleanup_delete_template")
                ELSE Goto("cleanup_poll")
    /\ UNCHANGED <<groupVars, listed, listenerVars, waitExit, jobVars, enterVars, argVars, attachVars, computeVars,
                   busVars, now, log, histVars>>

\* _remove_instance_template, lines 596-603.
CleanUpDeleteTemplate ==
    /\ pc = "cleanup_delete_template"
    /\ IF ~started
       THEN Raise(curOp, "Exception(Job is not running)") /\ UNCHANGED <<log, op>>
       ELSE \E ok \in BOOLEAN :
            /\ Logged("delete_template", "clean_up", ok)
            /\ IF ok
               THEN Goto("cleanup_wait_template") /\ op' = NewOp("delete_template")
               ELSE Raise(curOp, "DeleteTemplateError") /\ UNCHANGED op
    /\ UNCHANGED <<groupVars, listed, listenerVars, waitExit, jobVars, enterVars, argVars, attachVars, templateExists,
                   groupExists, busVars, now, polled, histVars>>

\* _remove_instance_template, line 604.
CleanUpWaitTemplate ==
    /\ pc = "cleanup_wait_template"
    /\ polled' = TRUE
    /\ \E ok \in BOOLEAN :
        /\ waitExit' = PollOperation(ok)
        /\ CASE PollOperation(ok).exit = "raise" ->
                    Raise(curOp, PollOperation(ok).error) /\ UNCHANGED opsDone
               [] PollOperation(ok).exit = "return" ->
                    /\ opsDone' = opsDone \cup {op.kind}
                    /\ Return(curOp)
               [] OTHER ->
                    /\ UNCHANGED <<endVars, opsDone>>
    /\ UNCHANGED <<groupVars, listed, listenerVars, jobVars, enterVars, argVars, attachVars, computeVars,
                   busVars, now, log, created, firstError>>

\* ----------------------------------------- the listener of on_finish

\* pubsub_callback, lines 555-557: message.ack() is reached only when the
\* caller's callback has returned; an exception ends the invocation.
AcksAlways(raised) == TRUE

Acks(raised) == ~raised

\* What one invocation of pubsub_callback does, in order: line 556 calls
\* the callback with the decoded status, line 557 acknowledges.
CallbackEvent(status, raised) ==
    [ev |-> "callback", status |-> status, ok |-> ~raised]

AckEvent(status) == [ev |-> "ack", status |-> status, ok |-> TRUE]

pubsub_callback(message, raised) ==
    <<CallbackEvent(json_loads(message.data).status, raised)>> \o
        (IF Acks(raised)
         THEN <<AckEvent(json_loads(message.data).status)>>
         ELSE <<>>)

\* How often the listener has been handed the message.
Deliveries ==
    Cardinality({i \in 1..Len(callbacks) : callbacks[i].ev = "callback"})

\* The bus hands the pending status message to the subscribed listener,
\* which runs pubsub_callback on it (lines 554-557). The callback returns
\* or raises; a message that is not acknowledged, or whose acknowledgement
\* does not arrive, stays with the bus, which may hand it out again.
ListenerDeliver ==
    /\ listening
    /\ subExists
    /\ msg.state = "pending"
    /\ pc # "attach_acknowledge"
    /\ Deliveries < MaxDeliveries
    /\ \E raised, arrives \in BOOLEAN :
        /\ callbacks' = callbacks \o pubsub_callback(msg, raised)
        /\ msg' = IF Acks(raised) /\ arrives
                  THEN [msg EXCEPT !.state = "acked"]
                  ELSE msg
    /\ UNCHANGED <<groupVars, listed, waitExit, jobVars, enterVars, endVars,
                   argVars, attachVars, computeVars, topicExists, subExists,
                   listening, now, log, polled, histVars>>

\* ---------------------------------------------------------- the worker

\* The instance of the group runs the script and publishes its status.
WorkerPublish ==
    /\ groupExists
    /\ topicExists
    /\ subExists
    /\ msg.state = "none"
    /\ \E code \in StatusCodes :
        msg' = [state |-> "pending", data |-> StatusData(code), time |-> now]
    /\ UNCHANGED <<groupVars, listed, listenerVars, waitExit, jobVars, enterVars, endVars, argVars, attachVars,
                   computeVars, topicExists, subExists, listening, now, log,
                   polled, histVars>>

\* The group goes away on its own: the worker removes it when the script
\* is over, or it is removed from outside.
WorkerShutdown ==
    /\ groupExists
    /\ groupExists' = FALSE
    /\ UNCHANGED <<groupVars, listed, listenerVars, waitExit, jobVars, enterVars, endVars, argVars, attachVars,
                   templateExists, op, busVars, now, log, polled, histVars>>

\* ------------------------------------------------------- specification

Next ==
    \/ CallRun
    \/ RunCreateMachineConfig
    \/ RunCreateStatusTopic
    \/ RunListTopics
    \/ RunCreateStatusSubscription
    \/ RunInsertTemplate
    \/ RunWaitTemplate
    \/ RunInsertGroup
    \/ RunWaitGroup
    \/ RunMarkStarted
    \/ RollbackRemoveInstanceGroup
    \/ RollbackWaitGroup
    \/ RollbackDeleteTopic
    \/ RollbackDeleteSubscription
    \/ RollbackRaise
    \/ CallAttach
    \/ AttachLoop
    \/ PullBlocks
    \/ PullReturns
    \/ AttachAcknowledge
    \/ CallOnFinish
    \/ ListenerDeliver
    \/ CallCleanUp
    \/ CleanUpPollGroups
    \/ CleanUpDeleteTemplate
    \/ CleanUpWaitTemplate
    \/ ProviderStartOp
    \/ ProviderFinishOp
    \/ WorkerPublish
    \/ WorkerShutdown

Spec == Init /\ [][Next]_vars

\* The thread that runs _wait_for_operation keeps running: its loop
\* (sleep one second, ask again) takes its next iteration.
WaitStep ==
    \/ RunWaitTemplate
    \/ RunWaitGroup
    \/ RollbackWaitGroup
    \/ CleanUpWaitTemplate

\* The operations in which the Job waits for an operation of the provider
\* (run with its except clause and the attach it calls, clean_up), with the
\* provider and the worker; attach and on_finish called by the caller, which
\* neither wait for an operation nor touch one, are left out.
WaitNext ==
    \/ CallRun
    \/ RunCreateMachineConfig
    \/ RunCreateStatusTopic
    \/ RunListTopics
    \/ RunCreateStatusSubscription
    \/ RunInsertTemplate
    \/ RunInsertGroup
    \/ RunMarkStarted
    \/ RollbackRemoveInstanceGroup
    \/ RollbackDeleteTopic
    \/ RollbackDeleteSubscription
    \/ RollbackRaise
    \/ AttachLoop
    \/ PullBlocks
    \/ PullReturns
    \/ AttachAcknowledge
    \/ CallCleanUp
    \/ CleanUpPollGroups
    \/ CleanUpDeleteTemplate
    \/ WaitStep
    \/ ProviderStartOp
    \/ ProviderFinishOp
    \/ WorkerPublish
    \/ WorkerShutdown

FairSpec == Init /\ [][WaitNext]_vars /\ WF_vars(WaitStep)

\* ------------------------------------------------------------ JobGroup

\* The group's name, the argument vectors of the specs, and the first 16
\* characters of the uuid1 values the Jobs draw.
GroupName == "batch"

SpecArgs == {"echo hi", "echo bye"}

UuidPrefixes == {"6fa459ea-ee8a-3c"}

\* str() of a non-negative integer, as the f-string of line 315 formats it.
Digits == <<"0", "1", "2", "3", "4", "5", "6", "7", "8", "9">>

RECURSIVE Str(_)
Str(i) == IF i < 10 THEN Digits[i + 1]
          ELSE Str(i \div 10) \o Digits[(i % 10) + 1]

\* Line 315: name_prefix = f"{self.name}-{spec_id}".
NamePrefixOneBased(name, id) == name \o "-" \o Str(id + 1)

NamePrefix(name, id) == name \o "-" \o Str(id)

\* Job.__init__, lines 387-390, with no name and a name prefix.
JobNameOf(name_prefix, uuid) == name_prefix \o "-" \o "clash-job-" \o uuid

\* all(map(lambda code: code == 0, codes)), line 335.
AllZero(codes) == \A k \in 1..Len(codes) : codes[k] = 0

\* A bool as the value an operation returned.
PyBool(b) == IF b THEN "True" ELSE "False"

\* The Job the factory creates (lines 271-279 and 371-392).
NewJob(name, spec) ==
    [name |-> name, spec |-> spec, started |-> FALSE, listening |-> FALSE,
     msg |-> "none", data |-> "", recorded |-> 0]

GroupDone(name, kind, v) ==
    /\ gpc' = "idle"
    /\ gout' = [op |-> name, kind |-> kind, value |-> v]

\* The Job the loop of JobGroup.run is working on.
CurrentJob == Len(jobs)

\* add_job, lines 303-308.
GroupAddJob ==
    /\ gpc = "idle"
    /\ Len(job_specs) < MaxSpecs
    /\ \E a \in SpecArgs : job_specs' = Append(job_specs, a)
    /\ GroupDone("add_job", "return", None)
    /\ cleaned' = <<>>
    /\ UNCHANGED <<singleJobVars, running_jobs, jobs_status_codes, spec_id,
                   jobs>>

\* JobGroup.run is called; the group's caller runs a group once.
GroupCallRun ==
    /\ gpc = "idle"
    /\ jobs = <<>>
    /\ gpc' = "run_loop"
    /\ spec_id' = 0
    /\ cleaned' = <<>>
    /\ UNCHANGED <<singleJobVars, job_specs, running_jobs, jobs_status_codes,
                   jobs, gout>>

\* Lines 314-315: the next spec of enumerate(self.job_specs) is taken and
\* its Job made by the factory; when there is none left, run returns.
GroupRunCreate ==
    /\ gpc = "run_loop"
    /\ IF spec_id < Len(job_specs)
       THEN /\ \E u \in UuidPrefixes :
                jobs' = Append(jobs,
                               NewJob(JobNameOf(NamePrefix(GroupName, spec_id), u),
                                      job_specs[spec_id + 1]))
            /\ gpc' = "run_job"
            /\ UNCHANGED gout
       ELSE /\ GroupDone("run", "return", None)
            /\ UNCHANGED jobs
    /\ UNCHANGED <<singleJobVars, job_specs, running_jobs, jobs_status_codes,
                   spec_id, cleaned>>

\* Lines 316-321: job.run(...) without wait_for_result. It returns with the
\* Job started, or it raises (after its own rollback) and the exception
\* leaves JobGroup.run.
GroupJobRun ==
    /\ gpc = "run_job"
    /\ \E ok \in BOOLEAN :
        IF ok
        THEN /\ jobs' = [jobs EXCEPT ![CurrentJob].started = TRUE]
             /\ gpc' = "run_on_finish"
             /\ UNCHANGED gout
        ELSE /\ GroupDone("run", "raise", "JobRunError")
             /\ UNCHANGED jobs
    /\ UNCHANGED <<singleJobVars, job_specs, running_jobs, jobs_status_codes,
                   spec_id, cleaned>>

\* Line 323: job.on_finish(self.jobs_status_codes.append); the listener is
\* subscribed, or subscribe raises.
GroupOnFinish ==
    /\ gpc = "run_on_finish"
    /\ \E ok \in BOOLEAN :
        IF ok
        THEN /\ jobs' = [jobs EXCEPT ![CurrentJob].listening = TRUE]
             /\ gpc' = "run_append"
             /\ UNCHANGED gout
        ELSE /\ GroupDone("run", "raise", "SubscribeError")
             /\ UNCHANGED jobs
    /\ UNCHANGED <<singleJobVars, job_specs, running_jobs, jobs_status_codes,
                   spec_id, cleaned>>

\* Line 324: self.running_jobs.append(job), and the loop goes on.
GroupRecordLaunched ==
    /\ gpc = "run_append"
    /\ running_jobs' = Append(running_jobs, CurrentJob)
    /\ spec_id' = spec_id + 1
    /\ gpc' = "run_loop"
    /\ UNCHANGED <<singleJobVars, job_specs, jobs_status_codes, jobs, gout,
                   cleaned>>

\* The worker of a started Job publishes its status message.
GroupWorkerPublish ==
    \E i \in 1..Len(jobs) :
        /\ jobs[i].started
        /\ jobs[i].msg = "none"
        /\ \E code \in StatusCodes :
            jobs' = [jobs EXCEPT ![i].msg = "pending",
                                 ![i].data = StatusData(code)]
        /\ UNCHANGED <<singleJobVars, job_specs, running_jobs,
                       jobs_status_codes, gpc, spec_id, gout, cleaned>>

\* The deliveries of a message to a listener that had been given it before.
Duplicates ==
    Len(jobs_status_codes) -
        Cardinality({i \in 1..Len(jobs) : jobs[i].recorded > 0})

\* pubsub_callback (lines 554-557) of a Job of the group, on its listener
\* thread: the status is decoded and appended to jobs_status_codes, then
\* the message acknowledged; an acknowledgement that does not arrive lets
\* the bus deliver the message again.
GroupListener ==
    \E i \in 1..Len(jobs) :
        /\ jobs[i].listening
        /\ jobs[i].msg = "pending"
        /\ jobs[i].recorded = 0 \/ Duplicates < MaxDuplicates
        /\ jobs_status_codes' =
               Append(jobs_status_codes, json_loads(jobs[i].data).status)
        /\ \E arrives \in BOOLEAN :
            jobs' = [jobs EXCEPT ![i].recorded = @ + 1,
                                 ![i].msg = IF arrives THEN "acked" ELSE "pending"]
        /\ UNCHANGED <<singleJobVars, job_specs, running_jobs, gpc, spec_id,
                       gout, cleaned>>

\* JobGroup.wait is called.
GroupCallWait ==
    /\ gpc = "idle"
    /\ gpc' = "wait_loop"
    /\ cleaned' = <<>>
    /\ UNCHANGED <<singleJobVars, job_specs, running_jobs, jobs_status_codes,
                   spec_id, jobs, gout>>

\* Line 332: the loop condition of wait.
WaitGoesOn(codes, running) == Len(codes) # Len(running)

\* Lines 332-333: the two lengths are compared; wait sleeps a second and
\* compares again, or leaves the loop.
GroupWaitLoop ==
    /\ gpc = "wait_loop"
    /\ gpc' = IF WaitGoesOn(jobs_status_codes, running_jobs)
              THEN "wait_loop" ELSE "wait_all"
    /\ UNCHANGED <<singleJobVars, job_specs, running_jobs, jobs_status_codes,
                   spec_id, jobs, gout, cleaned>>

\* Line 335: the codes are read again and wait returns whether all are 0.
GroupWaitReturn ==
    /\ gpc = "wait_all"
    /\ GroupDone("wait", "return", PyBool(AllZero(jobs_status_codes)))
    /\ UNCHANGED <<singleJobVars, job_specs, running_jobs, jobs_status_codes,
                   spec_id, jobs, cleaned>>

\* JobGroup.clean_up (or __exit__, line 351) is called.
GroupCallCleanUp ==
    /\ gpc = "idle"
    /\ gpc' = "clean_loop"
    /\ spec_id' = 0
    /\ cleaned' = <<>>
    /\ UNCHANGED <<singleJobVars, job_specs, running_jobs, jobs_status_codes,
                   jobs, gout>>

\* Lines 341-342: `job.clean_up()` stands in the loop with no try around
\* it, so an exception of it leaves JobGroup.clean_up.
CleanUpSwallows(raised) == FALSE

CleanUpPropagates(raised) == raised

\* Lines 341-342: clean_up of the next launched Job, which returns or
\* raises; after the last one JobGroup.clean_up returns.
GroupCleanUpJob ==
    /\ gpc = "clean_loop"
    /\ IF spec_id < Len(running_jobs)
       THEN \E raised \in BOOLEAN :
            /\ cleaned' = Append(cleaned, [job |-> running_jobs[spec_id + 1],
                                           ok |-> ~raised])
            /\ IF CleanUpPropagates(raised)
               THEN /\ GroupDone("clean_up", "raise", "JobCleanUpError")
                    /\ UNCHANGED spec_id
               ELSE /\ spec_id' = spec_id + 1
                    /\ UNCHANGED <<gpc, gout>>
       ELSE /\ GroupDone("clean_up", "return", None)
            /\ UNCHANGED <<spec_id, cleaned>>
    /\ UNCHANGED <<singleJobVars, job_specs, running_jobs, jobs_status_codes,
                   jobs>>

GroupNext ==
    \/ GroupAddJob
    \/ GroupCallRun
    \/ GroupRunCreate
    \/ GroupJobRun
    \/ GroupOnFinish
    \/ GroupRecordLaunched
    \/ GroupWorkerPublish
    \/ GroupListener
    \/ GroupCallWait
    \/ GroupWaitLoop
    \/ GroupWaitReturn
    \/ GroupCallCleanUp
    \/ GroupCleanUpJob

\* A JobGroup, its caller, and the workers and listeners of its Jobs; the
\* single Job stays as constructed, with no timeout configured.
GroupInit == Init /\ timeout_seconds = NoTimeout

GroupSpec == GroupInit /\ [][GroupNext]_vars

\* ------------------------------------------------------------- history

\* The provider calls of the log issued by `by`.
CallsBy(by) == {i \in 1..Len(log) : log[i].by = by}

\* The call c was issued (by `by`), whether it returned or raised.
Attempted(c, by) == \E i \in CallsBy(by) : log[i].call = c

\* The call c was issued and returned.
Succeeded(c, by) == \E i \in CallsBy(by) : log[i].call = c /\ log[i].ok

\* The resource a delete call removes.
Removes(c) ==
    CASE c = "delete_group" -> "group"
      [] c = "delete_topic" -> "topic"
      [] c = "delete_subscription" -> "subscription"
      [] c = "delete_template" -> "template"
      [] OTHER -> "nothing"

\* The resources whose removal run's except clause attempted.
RollbackAttempts == {Removes(log[i].call) : i \in CallsBy("rollback")}

\* The step of the creation sequence (numbered as in the design: 1 the
\* machine configuration, 2 topic, 3 subscription, 4 template, 5 group)
\* that run reached, read off its last provider call.
StepOf(c) ==
    CASE c = "get_image" -> 1
      [] c = "create_topic" -> 2
      [] c \in {"list_topics", "create_subscription"} -> 3
      [] c = "insert_template" -> 4
      [] c = "insert_group" -> 5
      [] OTHER -> 0

RunStep ==
    IF CallsBy("run") = {} THEN 0
    ELSE StepOf(log[CHOOSE i \in CallsBy("run") :
                        \A j \in CallsBy("run") : j <= i].call)

\* run has ended by raising (and no later operation has ended since).
RunRaised == pc = "idle" /\ outcome.op = "run" /\ outcome.kind = "raise"

\* The step about to be taken issues the provider call c.
Issues(c) == Len(log') = Len(log) + 1 /\ log'[Len(log')].call = c

\* The operation in progress has made no provider call.
NoProviderCall == Len(log) = logAtCall /\ ~polled

\* -------------------------------------------------------------- claims

\* C1: when run's creation sequence fails at step k in {2, 3, 4, 5}, the
\* rollback attempts removal of exactly the resources steps 2..k-1 created,
\* of no other resource, and run raises the original error unchanged.
C1_RollbackRemovesExactlyCreated ==
    (RunRaised /\ ~started /\ RunStep \in 2..5) =>
        /\ RollbackAttempts = created
        /\ outcome.value = firstError

\* C2: after a run that ended by raising, whatever the step that failed,
\* neither the status topic nor the status subscription nor the managed
\* instance group exists at the provider.
C2_FailedRunLeavesNothing ==
    RunRaised => ~topicExists /\ ~subExists /\ ~groupExists

\* C3: in run's failure rollback, whichever of the removals fail, every
\* failure is swallowed, every remaining removal that applies is still
\* attempted, and run raises the original exception, never a removal's.
C3_RollbackFailuresSwallowed ==
    /\ pc \in {"rollback", "rollback_wait_group"} => ex = firstError
    /\ (RunRaised /\ firstError # None) =>
        /\ outcome.value = firstError
        /\ started => Attempted("delete_group", "rollback")
        /\ job_status_topic # None => Attempted("delete_topic", "rollback")
        /\ job_status_subscription # None =>
               Attempted("delete_subscription", "rollback")

\* A removal of the rollback failed, a later one was still tried, and run
\* raised what it had caught.
C3_Witness ==
    /\ RunRaised
    /\ outcome.value = firstError
    /\ \E i, j \in CallsBy("rollback") : i < j /\ ~log[i].ok

\* The place of a removal in the order group, topic, subscription; 0 for
\* any other call (the removal of the template among them).
RollbackRank(c) ==
    CASE c = "delete_group" -> 1
      [] c = "delete_topic" -> 2
      [] c = "delete_subscription" -> 3
      [] OTHER -> 0

\* C4: in every failure rollback of run the removals are attempted in the
\* order group, topic, subscription, each only if it applies, and the
\* removal of the instance template is never attempted.
C4_RollbackOrder ==
    /\ \A i \in CallsBy("rollback") :
        /\ RollbackRank(log[i].call) # 0
        /\ log[i].call = "delete_group" => started
        /\ log[i].call = "delete_topic" => job_status_topic # None
        /\ log[i].call = "delete_subscription" => job_status_subscription # None
    /\ \A i, j \in CallsBy("rollback") :
        i < j => RollbackRank(log[i].call) < RollbackRank(log[j].call)

\* A rollback that attempted all three removals.
C4_Witness ==
    /\ RunRaised
    /\ RollbackAttempts = {"group", "topic", "subscription"}

\* C5: after a run that succeeded and a clean_up (or a context-manager
\* exit) that returned, none of the four resources the Job created (topic,
\* subscription, instance template, managed instance group) exists.
C5_CleanUpTearsDownEverything ==
    ( /\ pc = "idle"
      /\ outcome.op \in {"clean_up", "__exit__"}
      /\ outcome.kind = "return"
      /\ started
      /\ firstError = None ) =>
        ~topicExists /\ ~subExists /\ ~templateExists /\ ~groupExists

\* C6: clean_up on a started Job issues the delete of the instance template
\* only after a poll of the group list has shown the Job's group absent,
\* never while the group is still listed, and it keeps polling (it does not
\* return) as long as the group stays listed.
C6_TemplateDeletedAfterGroupGone ==
    [][ /\ Issues("delete_template") =>
            /\ pc = "cleanup_delete_template"
            /\ polled
            /\ ~groupExists
        /\ (pc = "cleanup_poll" /\ groupExists) =>
            \/ pc' = "cleanup_poll"
            \/ pc' = "idle" /\ outcome'.kind = "raise"
      ]_vars

\* clean_up has issued the delete of the template of a started Job whose
\* group is gone.
C6_Witness ==
    /\ started
    /\ Attempted("delete_template", "clean_up")
    /\ ~groupExists
    /\ pc = "cleanup_wait_template"

\* The four creations of run, all successful, in the order topic,
\* subscription, template, group.
CreatedInOrder ==
    \E t, u, v, w \in CallsBy("run") :
        /\ t < u /\ u < v /\ v < w
        /\ log[t] = Call("create_topic", "run", TRUE)
        /\ log[u] = Call("create_subscription", "run", TRUE)
        /\ log[v] = Call("insert_template", "run", TRUE)
        /\ log[w] = Call("insert_group", "run", TRUE)

\* The operation of the given kind is over, without error.
OperationDone(kind) ==
    op.kind = kind /\ op.status = "DONE" /\ ~op.error

\* C7: run creates its resources in the order topic, subscription, instance
\* template, managed instance group, each step starting only after the one
\* before it succeeded (the template's and the group's operation seen
\* DONE), started becomes true only after all four succeeded, and it is
\* never reset.
C7_CreationOrder ==
    [][ /\ Issues("create_topic") =>
            ~\E i \in 1..Len(log) : log[i].call # "get_image"
        /\ Issues("create_subscription") =>
            Succeeded("create_topic", "run") /\ topicExists
        /\ Issues("insert_template") =>
            Succeeded("create_subscription", "run") /\ subExists
        /\ Issues("insert_group") =>
            OperationDone("insert_template") /\ templateExists
        /\ (~started /\ started') =>
            OperationDone("insert_group") /\ CreatedInOrder
        /\ started => started'
      ]_vars

\* run has returned on a Job it started.
C7_Witness ==
    /\ pc = "idle"
    /\ started
    /\ outcome.op = "run"
    /\ outcome.kind = "return"
    /\ CreatedInOrder

\* on_finish, attach or clean_up has ended on a Job run was never called on.
EndedBeforeRun(name) == pc = "idle" /\ ~runCalled /\ outcome.op = name

\* C8: on_finish, attach and clean_up on a Job run was never called on fail
\* with a not-started error and perform no provider call.
C8_NotStartedFailsFast ==
    \A name \in {"on_finish", "attach", "clean_up"} :
        EndedBeforeRun(name) =>
            /\ outcome.kind = "raise"
            /\ outcome.value = NotRunning
            /\ NoProviderCall

\* C8 as amended: on a Job run was never called on, on_finish and attach
\* fail with the not-started error, clean_up returns normally, and none of
\* the three performs a provider call.
C8_NotStartedAmended ==
    /\ \A name \in {"on_finish", "attach"} :
        EndedBeforeRun(name) =>
            /\ outcome.kind = "raise"
            /\ outcome.value = NotRunning
            /\ NoProviderCall
            /\ log = <<>>
    /\ EndedBeforeRun("clean_up") =>
            /\ outcome.kind = "return"
            /\ NoProviderCall
            /\ log = <<>>

\* Before any run, attach has failed and then clean_up has returned.
C8_Witness ==
    /\ EndedBeforeRun("clean_up")
    /\ callNo = 2
    /\ outcome.kind = "return"
    /\ log = <<>>

\* C9: clean_up on a Job whose started flag is unset (run never called, or
\* run failed in its creation sequence) is a no-op: it returns normally,
\* issues no provider call and leaves the state of the Job unchanged.
C9_CleanUpNoOp ==
    [][ (callNo' = callNo + 1 /\ curOp' = "clean_up" /\ ~started) =>
            /\ pc' = "idle"
            /\ outcome' = [op |-> "clean_up", kind |-> "return",
                           value |-> None, status |-> -1]
            /\ log' = log
            /\ ~polled'
            /\ UNCHANGED <<listenerVars, jobVars, computeVars, busVars>>
      ]_vars

\* clean_up has returned on a Job whose run failed in the creation sequence.
C9_Witness ==
    /\ pc = "idle"
    /\ runCalled
    /\ ~started
    /\ firstError # None
    /\ outcome = [op |-> "clean_up", kind |-> "return",
                  value |-> None, status |-> -1]

\* attach (called directly or by run) has returned a status payload.
AttachReturned ==
    /\ pc = "idle"
    /\ outcome.op \in {"attach", "run"}
    /\ outcome.kind = "return"
    /\ pulled.state = "received"

\* C10: attach with a timeout T returns the first status received within T
\* seconds of the call, fails with a timeout error if none arrives within
\* T, and never returns a status received after T seconds had elapsed.
C10_AttachHonoursTimeout ==
    (AttachReturned /\ ~Falsy(attach_timeout)) =>
        pulled.time - start_time <= attach_timeout

\* The acknowledge calls attach has issued in the operation in progress (or
\* the one that ended last).
AttachAcks ==
    {i \in CallsBy("attach") : i > logAtCall /\ log[i].call = "acknowledge"}

\* C11: in attach every message pulled from the status subscription is
\* acknowledged exactly once, the acknowledgement is issued before the
\* payload is returned, and attach never returns the payload of a message
\* that is not acknowledged.
C11_AttachAcknowledgesOnce ==
    /\ [](Cardinality(AttachAcks) <= 1)
    /\ []((pc = "idle" /\ pulled.state = "received") =>
              Cardinality(AttachAcks) = 1)
    /\ [](AttachReturned =>
              \E i \in AttachAcks : log[i].ok /\ i = Len(log))
    /\ [][ (pc' = "idle" /\ pc # "idle" /\ outcome'.kind = "return"
              /\ outcome'.op \in {"attach", "run"}
              /\ pulled'.state = "received") =>
                /\ msg'.state = "acked"
                /\ msg'.data = pulled'.data ]_vars

\* attach has returned the status of a message it pulled at its second
\* pull and acknowledged.
C11_Witness ==
    /\ AttachReturned
    /\ msg.state = "acked"
    /\ pulled.time > start_time
    /\ Cardinality(AttachAcks) = 1

\* The places in the listener's record at which an acknowledgement stands.
ListenerAcks == {i \in 1..Len(callbacks) : callbacks[i].ev = "ack"}

\* C17: in the listener registered by on_finish the callback is invoked
\* with the delivered message's status code before the message is
\* acknowledged, and a message is acknowledged only when the callback
\* returned normally for it: a callback that raises sends no
\* acknowledgement.
C17_CallbackBeforeAck ==
    /\ [](\A i \in ListenerAcks :
              /\ i > 1
              /\ callbacks[i - 1].ev = "callback"
              /\ callbacks[i - 1].ok
              /\ callbacks[i - 1].status = callbacks[i].status)
    /\ [](\A i \in 1..Len(callbacks) :
              (callbacks[i].ev = "callback" /\ ~callbacks[i].ok) =>
                  (i + 1) \notin ListenerAcks)
    /\ [](\A i \in 1..Len(callbacks) :
              callbacks[i].status = json_loads(msg.data).status)
    /\ [][ (msg.state # "acked" /\ msg'.state = "acked"
              /\ callbacks' # callbacks) =>
                /\ callbacks'[Len(callbacks')].ev = "ack"
                /\ Len(callbacks') = Len(callbacks) + 2 ]_vars

\* The callback raised for the first delivery, so no acknowledgement was
\* sent; the message was delivered again, the callback returned and the
\* message was acknowledged.
C17_Witness ==
    /\ Len(callbacks) = 3
    /\ ~callbacks[1].ok
    /\ callbacks[2].ev = "callback" /\ callbacks[2].ok
    /\ callbacks[3].ev = "ack"
    /\ msg.state = "acked"

\* The positions at which the Job is inside _wait_for_operation.
WaitPcs == {"run_wait_template", "run_wait_group", "rollback_wait_group",
            "cleanup_wait_template"}

\* C18: _wait_for_operation returns normally only after observing the
\* operation DONE with no error field, raises only after observing it DONE
\* with an error field, and never returns while the operation is not DONE.
C18_WaitForOperation ==
    /\ waitExit.exit = "return" =>
           waitExit.status = "DONE" /\ waitExit.error = None
    /\ waitExit.exit = "raise" =>
           waitExit.status = "DONE" /\ waitExit.error # None

\* C18, amended: _wait_for_operation returns normally only after observing
\* the operation DONE with no error field and never while it is not DONE;
\* it raises the operation's error only after observing DONE with an error
\* field, and otherwise raises only the exception of the status request
\* itself; as long as the requests are answered and the operation is not
\* DONE it stays in its loop, and once the operation is DONE the call ends.
C18_WaitForOperationAmended ==
    /\ [](waitExit.exit = "return" =>
              waitExit.status = "DONE" /\ waitExit.error = None)
    /\ [](waitExit.exit = "raise" =>
              \/ waitExit.status = "DONE" /\ waitExit.error = "OperationError"
              \/ waitExit.status = "none" /\ waitExit.error = "OperationGetError")
    /\ [](waitExit.exit = "sleep" => waitExit.status \in {"PENDING", "RUNNING"})
    /\ [][ (pc \in WaitPcs /\ pc' # pc) =>
              /\ waitExit'.exit \in {"return", "raise"}
              /\ waitExit'.status \in {op.status, "none"}
              /\ op.status # "DONE" => waitExit'.error = "OperationGetError" ]_vars
    /\ [][ (pc \in WaitPcs /\ waitExit'.exit = "sleep") => pc' = pc ]_vars
    /\ (pc \in WaitPcs /\ op.status = "DONE") ~> (pc \notin WaitPcs)

\* The wait for an operation of run saw it DONE with an error after having
\* slept, and run raised that error.
C18_Witness ==
    /\ waitExit = [exit |-> "raise", status |-> "DONE",
                   error |-> "OperationError"]
    /\ RunRaised
    /\ outcome.value = "OperationError"
    /\ "template" \in created

\* The removals issued since the operation in progress (or the one that
\* ended last) began.
DeletesSinceCall ==
    {log[i].call : i \in {j \in 1..Len(log) :
                              j > logAtCall /\ Removes(log[j].call) # "nothing"}}

\* The operation `name` has ended with attach's timeout error.
TimedOut(name) ==
    /\ pc = "idle"
    /\ outcome.op = name
    /\ outcome.kind = "raise"
    /\ outcome.value = JobTimeout

\* C19: when attach's timeout elapses only the caller's wait ends: no
\* delete of the group, template, topic or subscription is issued, whether
\* attach was called directly or by run with synchronous wait.
C19_TimeoutDeletesNothing ==
    (TimedOut("attach") \/ TimedOut("run")) => DeletesSinceCall = {}

\* C19, amended: a timeout of an attach called directly issues no delete;
\* a timeout of the attach called by run with synchronous wait enters
\* run's except clause on a started Job, which attempts the removal of
\* the group, the topic and the subscription (not of the template) before
\* run raises the timeout error.
C19_TimeoutAmended ==
    /\ TimedOut("attach") => DeletesSinceCall = {}
    /\ TimedOut("run") =>
        /\ started /\ wait_for_result
        /\ DeletesSinceCall =
               {"delete_group", "delete_topic", "delete_subscription"}
        /\ \A i \in 1..Len(log) :
               (i > logAtCall /\ Removes(log[i].call) # "nothing") =>
                   log[i].by = "rollback"

\* run with synchronous wait has timed out and its except clause has
\* removed group, topic and subscription at the provider.
C19_Witness ==
    /\ TimedOut("run")
    /\ RollbackAttempts = {"group", "topic", "subscription"}
    /\ \A i \in CallsBy("rollback") : log[i].ok
    /\ ~topicExists /\ ~subExists

\* The calls run's except clause has issued.
RollbackCalls == {log[i].call : i \in CallsBy("rollback")}

\* C20: when, at subscription-creation time in run, the Job's topic is not
\* among the topics listed for the project, no subscription is created, no
\* template or group creation is attempted, the rollback deletes the
\* topic, and run raises the configuration error.
C20_TopicNotListed ==
    /\ [][ ( /\ Issues("list_topics")
              /\ log'[Len(log')].ok
              /\ job_status_topic \notin listed' ) =>
                /\ pc' = "rollback"
                /\ ex' = TopicNotFound
                /\ job_status_topic # None ]_vars
    /\ []( ( /\ RunRaised
             /\ Succeeded("list_topics", "run")
             /\ job_status_topic \notin listed ) =>
                /\ outcome.value = TopicNotFound
                /\ ~Attempted("create_subscription", "run")
                /\ ~Attempted("insert_template", "run")
                /\ ~Attempted("insert_group", "run")
                /\ job_status_subscription = None
                /\ ~subExists /\ ~templateExists /\ ~groupExists
                /\ RollbackCalls = {"delete_topic"}
                /\ Succeeded("delete_topic", "rollback") => ~topicExists )

\* The created topic was not listed; run deleted it and raised the
\* configuration error.
C20_Witness ==
    /\ RunRaised
    /\ outcome.value = TopicNotFound
    /\ Succeeded("create_topic", "run")
    /\ listed = {}
    /\ Succeeded("delete_topic", "rollback")
    /\ ~topicExists

\* The Jobs recorded as launched, and how an operation of the group ended.
Launched == {running_jobs[k] : k \in 1..Len(running_jobs)}

GroupEnded(name, kind) ==
    gpc = "idle" /\ gout.op = name /\ gout.kind = kind

\* run has launched a Job for every spec that was added (and there is one).
AllLaunched ==
    /\ job_specs # <<>>
    /\ Len(running_jobs) = Len(job_specs)

\* The worker of Job i has posted its status; the code it posted.
Reported(i) == jobs[i].msg # "none"

ReportedCode(i) == json_loads(jobs[i].data).status

\* C12: for a JobGroup with N added specs on which run has launched all N
\* jobs, wait does not return before N status codes have been recorded, it
\* returns true if and only if all N recorded codes equal 0, and it returns
\* false if any job reported a nonzero code.
C12_WaitResult ==
    (GroupEnded("wait", "return") /\ AllLaunched) =>
        /\ Len(jobs_status_codes) >= Len(job_specs)
        /\ (\A i \in Launched : jobs[i].recorded >= 1 /\ ReportedCode(i) = 0)
               => gout.value = "True"
        /\ (\E i \in Launched : Reported(i) /\ ReportedCode(i) # 0)
               => gout.value = "False"

\* C13: under every interleaving of JobGroup.run with the listener threads
\* of the jobs, the number of recorded completion codes never exceeds the
\* number of jobs recorded as launched.
C13_CodesNeverExceedLaunched ==
    Len(jobs_status_codes) <= Len(running_jobs)

\* C14: wait returns only after every launched job has had a completion
\* code recorded for it, also when the bus delivers a job's single status
\* message to its listener more than once.
C14_WaitCoversEveryJob ==
    GroupEnded("wait", "return") =>
        \A i \in Launched : jobs[i].recorded >= 1

\* C15: run launches exactly one Job per pending spec, in the order the
\* specs were added, and the Job launched for the spec at 0-based index i
\* has the name "{group}-{i}" exactly.
C15_JobNames ==
    GroupEnded("run", "return") =>
        /\ Len(jobs) = Len(job_specs)
        /\ running_jobs = [k \in 1..Len(jobs) |-> k]
        /\ \A k \in 1..Len(jobs) :
            /\ jobs[k].spec = job_specs[k]
            /\ jobs[k].name = GroupName \o "-" \o Str(k - 1)

\* C15, amended: a run that returns has launched exactly one Job per spec,
\* in the order the specs were added; a run that raises has launched the
\* Jobs of the specs before the one whose Job raised, and no later one.
\* The Job made for the spec at 0-based index i is named
\* "{group}-{i}-clash-job-" followed by the first 16 characters of a uuid1.
C15_JobNamesAmended ==
    /\ \A k \in 1..Len(jobs) :
        /\ jobs[k].spec = job_specs[k]
        /\ \E u \in UuidPrefixes :
            jobs[k].name = GroupName \o "-" \o Str(k - 1) \o "-clash-job-" \o u
    /\ \E m \in {Len(jobs) - 1, Len(jobs)} :
        /\ m >= 0
        /\ running_jobs = [k \in 1..m |-> k]
    /\ GroupEnded("run", "return") =>
        /\ Len(jobs) = Len(job_specs)
        /\ Len(running_jobs) = Len(jobs)
    /\ GroupEnded("run", "raise") =>
        /\ Len(running_jobs) = Len(jobs) - 1
        /\ Len(jobs) <= Len(job_specs)

\* run has returned on a group of two specs, whose Jobs are named
\* "batch-0-clash-job-..." and "batch-1-clash-job-...".
C15_Witness ==
    /\ GroupEnded("run", "return")
    /\ Len(job_specs) = 2
    /\ Len(running_jobs) = 2
    /\ jobs[1].name = "batch-0-clash-job-6fa459ea-ee8a-3c"
    /\ jobs[2].name = "batch-1-clash-job-6fa459ea-ee8a-3c"
    /\ jobs[1].spec # jobs[2].spec

\* C16: JobGroup.clean_up calls clean_up on the launched Jobs in launch
\* order; when the clean_up of the k-th job raises, the exception reaches
\* the caller and clean_up is called on no job launched after the k-th.
C16_GroupCleanUp ==
    /\ Len(cleaned) <= Len(running_jobs)
    /\ \A k \in 1..Len(cleaned) :
        /\ cleaned[k].job = running_jobs[k]
        /\ k < Len(cleaned) => cleaned[k].ok
    /\ gpc = "clean_loop" =>
        /\ Len(cleaned) = spec_id
        /\ \A k \in 1..Len(cleaned) : cleaned[k].ok
    /\ (cleaned # <<>> /\ ~cleaned[Len(cleaned)].ok) =>
           GroupEnded("clean_up", "raise") /\ gout.value = "JobCleanUpError"
    /\ GroupEnded("clean_up", "raise") =>
           cleaned # <<>> /\ ~cleaned[Len(cleaned)].ok
    /\ GroupEnded("clean_up", "return") =>
        /\ Len(cleaned) = Len(running_jobs)
        /\ \A k \in 1..Len(cleaned) : cleaned[k].ok

\* Of three (two) launched Jobs the clean_up of the second (first) raised:
\* the group's clean_up raised and the last Job was not cleaned up.
C16_Witness ==
    /\ GroupEnded("clean_up", "raise")
    /\ Len(running_jobs) = MaxSpecs
    /\ Len(cleaned) = MaxSpecs - 1
    /\ ~cleaned[Len(cleaned)].ok

\* The Job itself has removed its status topic or its status subscription.
ChannelRemovedByJob ==
    \E i \in 1..Len(log) :
        /\ log[i].call \in {"delete_topic", "delete_subscription"}
        /\ log[i].ok

\* C21: in every reachable state of a Job, started = true implies that the
\* Job has not deleted its own status topic or status subscription, so
\* that attach and on_finish, which only look at started, never work on a
\* subscription the Job itself removed (a run with wait_for_result = true
\* that raised included).
C21_StartedImpliesChannelKept ==
    started => ~ChannelRemovedByJob

\* The creation of the managed instance group has failed: the insert call
\* raised, or the operation it returned has ended with an error.
GroupInsertFailed ==
    \/ \E i \in CallsBy("run") : log[i].call = "insert_group" /\ ~log[i].ok
    \/ op.kind = "insert_group" /\ op.status = "DONE" /\ op.error

\* run created the instance template and then failed at the creation of
\* the group (the insert, or the wait for its operation, raised).
FailedAtGroupCreation ==
    /\ "template" \in created
    /\ Attempted("insert_group", "run")
    /\ "group" \notin created
    /\ firstError # None

\* C22: the delete of the instance template is issued only by clean_up on
\* a Job whose started flag is true; so after a run that created the
\* template and then failed at the creation of the group, no operation of
\* the Job (rollback, clean_up, context-manager exit, attach, on_finish)
\* ever deletes that template.
C22_TemplateDeletedOnlyByCleanUp ==
    /\ [][ Issues("delete_template") =>
              /\ started
              /\ curOp \in {"clean_up", "__exit__"}
              /\ log'[Len(log')].by = "clean_up"
              /\ ~GroupInsertFailed ]_vars
    /\ [](FailedAtGroupCreation =>
              /\ ~started
              /\ \A i \in 1..Len(log) : log[i].call # "delete_template"
              /\ templateExists)
    /\ [][ FailedAtGroupCreation => FailedAtGroupCreation' ]_vars

\* run created the template and failed at the creation of the group; its
\* rollback and a later clean_up (or context-manager exit) have ended and
\* the template is still there.
C22_Witness ==
    /\ FailedAtGroupCreation
    /\ pc = "idle"
    /\ outcome.op \in {"clean_up", "__exit__"}
    /\ RollbackCalls # {}
    /\ templateExists

====
